---- MODULE Spec2Model ----
(***************************************************************************)
(* Model of the plugin manager: the Source-List Store, the Alias Registry, *)
(* the per-repository Repository Stores, the installed-VM store, the       *)
(* upstream git repositories, and the operations of opm.go / api.go and of *)
(* the Update and UpdateRepository workflows.                              *)
(*                                                                         *)
(* Strings that the code splits or formats are sequences of tokens: the    *)
(* qualified name "org/repo:plugin" is <<"org/repo", ":", "plugin">> and   *)
(* the bare name "plugin" is <<"plugin">>.                                 *)
(***************************************************************************)
EXTENDS Integers, Sequences, FiniteSets, TLC

VARIABLES
    sourcesList,   \* Source-List Store: repository alias -> SourceInfo
    registry,      \* Alias Registry: bare name -> RepoList
    vms,           \* Repository Store, VMs: repository alias -> (alias -> Definition)
    subnets,       \* Repository Store, subnets: repository alias -> (alias -> Definition)
    installedVMs,  \* installed-VM store: qualified name -> version
    head,          \* upstream: repository -> head commit of the tracked branch
    tree,          \* upstream: repository -> working tree at the head commit
    mirror,        \* local git mirror: repository -> commit last fetched
    pc,            \* "idle", or "update" while Update.Execute iterates
    queue,         \* repositories the Update iterator has not reached yet
    passes,        \* number of UpdateRepository workflows started
    last,          \* the last operation called and what it did
    replay,        \* bookkeeping of an interrupted pass and of its re-run
    unreleased,    \* iterators the last operation opened and returned without releasing
    codec          \* a definition record, its stored form, and what is read back

vars == <<sourcesList, registry, vms, subnets, installedVMs, head, tree,
          mirror, pc, queue, passes, last, replay, unreleased, codec>>

(***************************************************************************)
(* Bounds.                                                                 *)
(***************************************************************************)
MaxPasses == 3   \* no Update starts once this many passes have started

(***************************************************************************)
(* Program constants.                                                      *)
(***************************************************************************)
ZeroHash == 0
CoreAlias == "DioneProtocol/odyssey-plugins-core"
CoreURL == "https://github.com/DioneProtocol/odyssey-plugins-core.git"
CoreBranch == "master"
QualifiedNameDelimiter == ":"
vmKey == "vm"
subnetKey == "subnet"

RepoA == "orgA/repoA"
Repos == {CoreAlias, RepoA}
\* byte order of the keys, the order of a store iterator
RepoOrder == <<CoreAlias, RepoA>>
Names == {"bar", "foo", "net"}
NameOrder == <<"bar", "foo", "net">>
URLOf(alias) == IF alias = CoreAlias THEN CoreURL ELSE "https://example.org/repoA.git"
Branches == {CoreBranch}

NoName == << >>

(***************************************************************************)
(* The typed key-value store: a function whose domain is the set of keys.  *)
(***************************************************************************)
EmptyDB == << >>
Has(db, key) == key \in DOMAIN db
Put(db, key, value) ==
    [k \in (DOMAIN db) \cup {key} |-> IF k = key THEN value ELSE db[k]]
Delete(db, key) == [k \in (DOMAIN db) \ {key} |-> db[k]]

Min(a, b) == IF a < b THEN a ELSE b

\* StoreRepository as it would be if the keys of a repository store did not
\* carry the prefix of the repository
StoreRepository_NoPrefix(all, alias, db) == [r \in DOMAIN all |-> db]

\* storage.NewRepository / GetRepository: the store of one repository is the
\* part of the database under the prefix `alias`
Repository(all, alias) == all[alias]
\* the database after the store under the prefix `alias` has become db
StoreRepository(all, alias, db) == [all EXCEPT ![alias] = db]

\* the keys of a store in iteration order, given the order of all keys
RECURSIVE Ordered(_, _)
Ordered(order, keys) ==
    IF order = << >> THEN << >>
    ELSE IF Head(order) \in keys
         THEN <<Head(order)>> \o Ordered(Tail(order), keys)
         ELSE Ordered(Tail(order), keys)

(***************************************************************************)
(* Names.                                                                  *)
(***************************************************************************)
\* qualifiedName: strings.Split(name, ":") has more than one part
qualifiedName(name) ==
    Cardinality({i \in 1..Len(name) : name[i] = QualifiedNameDelimiter}) + 1 > 1

\* fmt.Sprintf("%s:%s", repo, alias)
FullName(repo, alias) == <<repo, QualifiedNameDelimiter>> \o alias

\* util.ParseQualifiedName: the parts before and after the delimiter
ParseQualifiedName(name) == [alias |-> name[1], plugin |-> name[3]]

\* every qualified name in store order
QualifiedOrder ==
    <<FullName(CoreAlias, <<"bar">>), FullName(CoreAlias, <<"foo">>),
      FullName(CoreAlias, <<"net">>), FullName(RepoA, <<"bar">>),
      FullName(RepoA, <<"foo">>), FullName(RepoA, <<"net">>)>>

(***************************************************************************)
(* Versions: version.Semantic, compared major, then minor, then patch.     *)
(***************************************************************************)
V100 == <<1, 0, 0>>
V110 == <<1, 1, 0>>
V200 == <<2, 0, 0>>

Compare(v, o) ==
    IF v[1] # o[1] THEN (IF v[1] < o[1] THEN -1 ELSE 1)
    ELSE IF v[2] # o[2] THEN (IF v[2] < o[2] THEN -1 ELSE 1)
    ELSE IF v[3] # o[3] THEN (IF v[3] < o[3] THEN -1 ELSE 1)
    ELSE 0

(***************************************************************************)
(* Upstream working trees: the entries of vms/ and subnets/ in file-name   *)
(* order.  An entry is a directory, or a file <base>.<ext> holding one     *)
(* record under the well-known key.                                        *)
(***************************************************************************)
\* the zero value of a definition payload
ZeroDefinition == [Alias |-> "", Version |-> <<0, 0, 0>>, VMs |-> << >>]

\* a file <base>.<ext> whose YAML maps `key` to one record
File(key, base, alias, version, requires) ==
    [isDir |-> FALSE, base |-> base,
     data |-> [k \in {key} |->
                 [Alias |-> alias, Version |-> version, VMs |-> requires]]]
Dir(base) == [isDir |-> TRUE, base |-> base, data |-> << >>]
\* a file whose name is only an extension, such as .gitkeep
Hidden == [isDir |-> FALSE, base |-> "", data |-> << >>]

TreeOne ==
    [vms |-> <<File(vmKey, "a", "foo", V100, << >>)>>, subnets |-> << >>]
TreeTwo ==
    [vms |-> <<Hidden, File(vmKey, "a", "foo", V110, << >>),
               File(vmKey, "b", "bar", V100, << >>)>>,
     subnets |-> <<File(subnetKey, "n", "net", V100, <<"foo">>)>>]
TreeClash ==
    [vms |-> <<Dir("old"), File(vmKey, "x", "foo", V200, << >>)>>,
     subnets |-> <<File(subnetKey, "s", "foo", V100, <<"foo", "bar">>)>>]
Trees == {TreeOne, TreeTwo, TreeClash}
\* the working tree of the commit that follows a commit with tree `files`
NextTree(files) ==
    IF files = TreeOne THEN TreeTwo
    ELSE IF files = TreeTwo THEN TreeClash
    ELSE TreeOne

(***************************************************************************)
(* The UpdateRepository workflow (one pass of one repository).             *)
(*                                                                         *)
(* A pass can stop before its end: a step returns an error, or the process *)
(* is interrupted.  `halt` names where: the pass runs every stage before   *)
(* halt.at, then halt.k iterations of the stage halt.at, and stops there.  *)
(***************************************************************************)
StageOrder ==
    <<"loadVMs", "loadSubnets", "purgeVMs", "purgeSubnets", "updateVMs",
      "checkpoint", "none">>
StageNo(at) == CHOOSE i \in 1..Len(StageOrder) : StageOrder[i] = at
NoHalt == [at |-> "none", k |-> 0]

\* how many of the `len` iterations of `stage` the pass performs
Steps(halt, stage, len) ==
    IF StageNo(halt.at) > StageNo(stage) THEN len
    ELSE IF halt.at = stage THEN Min(halt.k, len)
    ELSE 0

\* loadFile as it would be if a definition already stored were kept and
\* only new aliases were written
loadFile_KeepStored(key, file, repositoryAlias, commit, prev) ==
    LET payload == IF key \in DOMAIN file.data THEN file.data[key]
                   ELSE ZeroDefinition
        definition == [Definition |-> payload, Commit |-> commit]
        alias == payload.Alias
        found == IF Has(prev.globalDB, alias) THEN prev.globalDB[alias]
                 ELSE [Repositories |-> << >>]
        updated == [Repositories |-> Append(found.Repositories, repositoryAlias)]
    IN IF file.isDir \/ file.base = "" THEN prev
       ELSE [globalDB |-> Put(prev.globalDB, alias, updated),
             repoDB |-> IF Has(prev.repoDB, alias) THEN prev.repoDB
                        ELSE Put(prev.repoDB, alias, definition)]

\* loadFile as it would be if a definition were stored under the base name
\* of its file
loadFile_ByFileName(key, file, repositoryAlias, commit, prev) ==
    LET payload == IF key \in DOMAIN file.data THEN file.data[key]
                   ELSE ZeroDefinition
        definition == [Definition |-> payload, Commit |-> commit]
        alias == payload.Alias
        found == IF Has(prev.globalDB, alias) THEN prev.globalDB[alias]
                 ELSE [Repositories |-> << >>]
        updated == [Repositories |-> Append(found.Repositories, repositoryAlias)]
    IN IF file.isDir \/ file.base = "" THEN prev
       ELSE [globalDB |-> Put(prev.globalDB, alias, updated),
             repoDB |-> Put(prev.repoDB, file.base, definition)]

\* loadFile as it would be if the RepoList read from the Alias Registry, or
\* the empty one made when there is none, were put back as it is
loadFile_NoAppend(key, file, repositoryAlias, commit, prev) ==
    LET payload == IF key \in DOMAIN file.data THEN file.data[key]
                   ELSE ZeroDefinition
        definition == [Definition |-> payload, Commit |-> commit]
        alias == payload.Alias
        found == IF Has(prev.globalDB, alias) THEN prev.globalDB[alias]
                 ELSE [Repositories |-> << >>]
    IN IF file.isDir \/ file.base = "" THEN prev
       ELSE [globalDB |-> Put(prev.globalDB, alias, found),
             repoDB |-> Put(prev.repoDB, alias, definition)]

\* the body of the loop of loadFromYAML, for one directory entry: prev holds
\* the Alias Registry (globalDB) and the repository store (repoDB) so far
loadFile(key, file, repositoryAlias, commit, prev) ==
    LET payload == IF key \in DOMAIN file.data THEN file.data[key]
                   ELSE ZeroDefinition
        definition == [Definition |-> payload, Commit |-> commit]
        alias == payload.Alias
        found == IF Has(prev.globalDB, alias) THEN prev.globalDB[alias]
                 ELSE [Repositories |-> << >>]
        updated == [Repositories |-> Append(found.Repositories, repositoryAlias)]
    IN IF file.isDir \/ file.base = "" THEN prev
       ELSE [globalDB |-> Put(prev.globalDB, alias, updated),
             repoDB |-> Put(prev.repoDB, alias, definition)]

\* loadFromYAML after the loop has handled the first n directory entries
RECURSIVE loadFromYAML(_, _, _, _, _, _, _)
loadFromYAML(key, files, n, repositoryAlias, commit, globalDB, repoDB) ==
    IF n = 0 THEN [globalDB |-> globalDB, repoDB |-> repoDB]
    ELSE loadFile(key, files[n], repositoryAlias, commit,
                  loadFromYAML(key, files, n - 1, repositoryAlias, commit,
                               globalDB, repoDB))

\* deleteStalePlugins as it would be with the comparison of the commits
\* inverted: the entries of the latest commit are the ones deleted
deleteStalePlugins_Fresh(db, latestCommit, n) ==
    LET keys == Ordered(NameOrder, DOMAIN db)
        visited == {keys[i] : i \in 1..Min(n, Len(keys))}
        fresh == {k \in visited : db[k].Commit = latestCommit}
    IN [k \in (DOMAIN db) \ fresh |-> db[k]]

\* deleteStalePlugins as it would be if it deleted nothing
deleteStalePlugins_KeepAll(db, latestCommit, n) == db

\* deleteStalePlugins after the iterator has visited the first n entries
deleteStalePlugins(db, latestCommit, n) ==
    LET keys == Ordered(NameOrder, DOMAIN db)
        visited == {keys[i] : i \in 1..Min(n, Len(keys))}
        stale == {k \in visited : db[k].Commit # latestCommit}
    IN [k \in (DOMAIN db) \ stale |-> db[k]]

\* the Install workflow as UpdateRepository configures it: it reads the
\* definition of `plugin` in vmStorage and records its version under `name`
InstallWorkflow(installed, vmStorage, name, plugin) ==
    IF ~Has(vmStorage, plugin)
    THEN [installedVMs |-> installed, err |-> "ErrNotFound"]
    ELSE [installedVMs |->
              Put(installed, name, vmStorage[plugin].Definition.Version),
          err |-> "nil"]

\* whether updateVMs rebuilds an installed VM, given the version installed
\* and the version of the definition found
Outdated(installedVersion, version) ==
    Compare(installedVersion, version) < 0

\* updateVMs over the installed VMs `keys`, stopping after n iterations;
\* reinstalled lists the VMs the install workflow was executed for
RECURSIVE updateVMs(_, _, _, _)
updateVMs(keys, n, installed, repoVMs) ==
    IF n = 0
    THEN [installedVMs |-> installed, err |-> "interrupted",
          reinstalled |-> << >>]
    ELSE IF keys = << >>
    THEN [installedVMs |-> installed, err |-> "nil", reinstalled |-> << >>]
    ELSE
      LET fullVMName == Head(keys)
          installedVersion == installed[fullVMName]
          vmName == ParseQualifiedName(fullVMName).plugin
      IN IF ~Has(repoVMs, vmName)
         THEN [installedVMs |-> installed, err |-> "ErrNotFound",
               reinstalled |-> << >>]
         ELSE
           LET updatedVM == repoVMs[vmName].Definition
               rebuild == Outdated(installedVersion, updatedVM.Version)
               after ==
                   IF rebuild
                   THEN InstallWorkflow(installed, repoVMs, fullVMName,
                                        vmName).installedVMs
                   ELSE installed
               rest == updateVMs(Tail(keys), n - 1, after, repoVMs)
           IN [rest EXCEPT !.reinstalled =
                  (IF rebuild THEN <<fullVMName>> ELSE << >>) \o @]

updateDefinitions(files, aliasBytes, latestCommit, reg, repoVMs, repoSubnets, halt) ==
    LET loadedVMs ==
            loadFromYAML(vmKey, files.vms,
                         Steps(halt, "loadVMs", Len(files.vms)), aliasBytes,
                         latestCommit, reg, repoVMs)
        loadedSubnets ==
            loadFromYAML(subnetKey, files.subnets,
                         Steps(halt, "loadSubnets", Len(files.subnets)),
                         aliasBytes, latestCommit, loadedVMs.globalDB,
                         repoSubnets)
    IN [registry |-> loadedSubnets.globalDB,
        VMs |-> deleteStalePlugins(
                    loadedVMs.repoDB, latestCommit,
                    Steps(halt, "purgeVMs", Cardinality(Names))),
        Subnets |-> deleteStalePlugins(
                        loadedSubnets.repoDB, latestCommit,
                        Steps(halt, "purgeSubnets", Cardinality(Names))),
        err |-> IF StageNo(halt.at) <= StageNo("purgeSubnets")
                THEN "interrupted" ELSE "nil"]

\* checkpoint as it would be if the Source-List entry were written when the
\* pass starts rather than when it has succeeded
checkpoint_First(list, aliasBytes, sourceInfo, latestCommit, err) ==
    Put(list, aliasBytes,
        [Alias |-> sourceInfo.Alias, URL |-> sourceInfo.URL,
         Branch |-> << >>, Commit |-> latestCommit])

\* the end of Execute: the Source-List after a pass whose steps returned err
checkpoint(list, aliasBytes, sourceInfo, latestCommit, err) ==
    LET updatedMetadata ==
            [Alias |-> sourceInfo.Alias, URL |-> sourceInfo.URL,
             Branch |-> << >>, Commit |-> latestCommit]
    IN IF err = "nil" THEN Put(list, aliasBytes, updatedMetadata) ELSE list

\* Execute as it would be if a pass that fails restored the stores it found
Execute_RollsBack(db, files, aliasBytes, sourceInfo, latestCommit, halt) ==
    LET defs == updateDefinitions(files, aliasBytes, latestCommit,
                                  db.registry, Repository(db.vms, aliasBytes),
                                  Repository(db.subnets, aliasBytes), halt)
        keys == Ordered(QualifiedOrder, DOMAIN db.installedVMs)
        upd == IF defs.err # "nil"
               THEN [installedVMs |-> db.installedVMs, err |-> defs.err,
                     reinstalled |-> << >>]
               ELSE updateVMs(keys,
                              Steps(halt, "updateVMs", Len(keys) + 1),
                              db.installedVMs, defs.VMs)
        err == IF upd.err # "nil" THEN upd.err
               ELSE IF halt.at # "none" THEN "interrupted" ELSE "nil"
    IN IF err # "nil"
       THEN [sourcesList |-> db.sourcesList, registry |-> db.registry,
             vms |-> db.vms, subnets |-> db.subnets,
             installedVMs |-> db.installedVMs, reinstalled |-> << >>,
             err |-> err]
       ELSE [sourcesList |-> checkpoint(db.sourcesList, aliasBytes,
                                        sourceInfo, latestCommit, err),
             registry |-> defs.registry,
             vms |-> StoreRepository(db.vms, aliasBytes, defs.VMs),
             subnets |-> StoreRepository(db.subnets, aliasBytes, defs.Subnets),
             installedVMs |-> upd.installedVMs,
             reinstalled |-> upd.reinstalled,
             err |-> err]

\* UpdateRepository.Execute on the stores db, for the repository aliasBytes
\* whose working tree holds `files` at latestCommit
Execute(db, files, aliasBytes, sourceInfo, latestCommit, halt) ==
    LET defs == updateDefinitions(files, aliasBytes, latestCommit,
                                  db.registry, Repository(db.vms, aliasBytes),
                                  Repository(db.subnets, aliasBytes), halt)
        keys == Ordered(QualifiedOrder, DOMAIN db.installedVMs)
        upd == IF defs.err # "nil"
               THEN [installedVMs |-> db.installedVMs, err |-> defs.err,
                     reinstalled |-> << >>]
               ELSE updateVMs(keys,
                              Steps(halt, "updateVMs", Len(keys) + 1),
                              db.installedVMs, defs.VMs)
        err == IF upd.err # "nil" THEN upd.err
               ELSE IF halt.at # "none" THEN "interrupted" ELSE "nil"
    IN [sourcesList |-> checkpoint(db.sourcesList, aliasBytes, sourceInfo,
                                   latestCommit, err),
        registry |-> defs.registry,
        vms |-> StoreRepository(db.vms, aliasBytes, defs.VMs),
        subnets |-> StoreRepository(db.subnets, aliasBytes, defs.Subnets),
        installedVMs |-> upd.installedVMs,
        reinstalled |-> upd.reinstalled,
        err |-> err]

\* the places a pass of a repository with working tree `files` can stop
Halts(files) ==
    {[at |-> "loadVMs", k |-> k] : k \in 0..(Len(files.vms) - 1)}
    \cup {[at |-> "loadSubnets", k |-> k] : k \in 0..(Len(files.subnets) - 1)}
    \cup {[at |-> at, k |-> k] :
            at \in {"purgeVMs", "purgeSubnets"}, k \in 0..(Cardinality(Names) - 1)}
    \cup {[at |-> "updateVMs", k |-> k] : k \in 0..(Len(QualifiedOrder) - 1)}
    \cup {[at |-> "checkpoint", k |-> 0], NoHalt}

(***************************************************************************)
(* State.                                                                  *)
(***************************************************************************)
Stores == [sourcesList |-> sourcesList, registry |-> registry, vms |-> vms,
           subnets |-> subnets, installedVMs |-> installedVMs]

\* what an operation records of itself
\* arg: the repository an operation of the Source-List acted on; for a
\* command, the name it ran with (NoName when it ran nothing).  alias,
\* consulted and matches are those of a command: the name it was called
\* with, whether the Alias Registry was read, the candidates of the error;
\* reference is the one a step of Update invoked the Git Mirror with;
\* installs and admin are those of JoinSubnet: the names it called Install
\* with and the calls it made to the admin API, in order
Called(op, arg, err) ==
    [op |-> op, arg |-> arg, err |-> err, alias |-> NoName,
     consulted |-> FALSE, matches |-> << >>, reference |-> << >>,
     installs |-> << >>, admin |-> << >>]

\* a step of the loop of Update: the Git Mirror was invoked with reference
Fetched(op, arg, err, reference) ==
    [Called(op, arg, err) EXCEPT !.reference = reference]
CommandOps == {"Install", "Uninstall", "Upgrade", "JoinSubnet"}
JoinOps == {"JoinSubnet", "APMJoinSubnet"}

NoReplay == [phase |-> "none"]
\* no record is being stored
NoCodec == [pc |-> "none"]
\* an interrupted pass stays pending while nothing it reads or writes changes
KeepReplay(changed) ==
    IF replay.phase = "pending" /\ ~changed THEN replay ELSE NoReplay

\* commit hashes: the first commit of a repository and the one after c
FirstCommit(r) == IF r = CoreAlias THEN 1 ELSE 2
NextCommit(c) == c + 2

\* New has returned a manager: the core repository is tracked and bootstrapped
Ready ==
    /\ pc = "idle"
    /\ Has(sourcesList, CoreAlias)
    /\ sourcesList[CoreAlias].Commit # ZeroHash

Init ==
    /\ sourcesList = EmptyDB
    /\ registry = EmptyDB
    /\ vms = [r \in Repos |-> EmptyDB]
    /\ subnets = [r \in Repos |-> EmptyDB]
    /\ installedVMs = EmptyDB
    /\ head = [r \in Repos |-> FirstCommit(r)]
    /\ tree \in {t \in [Repos -> Trees] : t[RepoA] = TreeOne}
    /\ mirror = [r \in Repos |-> ZeroHash]
    /\ pc = "idle"
    /\ queue = << >>
    /\ passes = 0
    /\ last = Called("none", "", "nil")
    /\ replay = NoReplay
    /\ unreleased = << >>
    /\ codec = NoCodec

(***************************************************************************)
(* Upstream: a new commit on the tracked branch of repository r.  Commit   *)
(* hashes are numbers, odd for the core repository and even for the other, *)
(* so that no two commits share a hash.  A head the program never fetched  *)
(* is not observable, so upstream advances once its head was fetched.      *)
(***************************************************************************)
Push(r) ==
    /\ UNCHANGED codec
    /\ unreleased' = << >>
    /\ pc = "idle"
    /\ mirror[r] = head[r]
    /\ head' = [head EXCEPT ![r] = NextCommit(head[r])]
    /\ tree' = [tree EXCEPT ![r] = NextTree(tree[r])]
    /\ last' = Called("Push", r, "nil")
    /\ replay' = KeepReplay(replay.phase = "pending" /\ replay.repo = r)
    /\ UNCHANGED <<sourcesList, registry, vms, subnets, installedVMs, mirror,
                   pc, queue, passes>>

(***************************************************************************)
(* AddRepository.                                                          *)
(***************************************************************************)
\* the parts of a repository alias between the "/" delimiters
SplitAlias(alias) ==
    IF alias = CoreAlias THEN <<"DioneProtocol", "odyssey-plugins-core">>
    ELSE IF alias = RepoA THEN <<"orgA", "repoA">>
    ELSE IF alias = "orgA/repoA/extra" THEN <<"orgA", "repoA", "extra">>
    ELSE <<alias>>
ValidAlias(alias) == Len(SplitAlias(alias)) = 2
\* the aliases AddRepository is called with: the repositories, and aliases
\* with one part and with three parts
AddAliases == Repos \cup {"repoA", "orgA/repoA/extra"}

\* plumbing.NewBranchReferenceName
NewBranchReferenceName(branch) == <<"refs/heads/", branch>>

\* the AddRepository workflow
AddRepositoryExecute(list, alias, url, branch) ==
    IF Has(list, alias) THEN list
    ELSE Put(list, alias,
             [Alias |-> alias, URL |-> url, Branch |-> branch,
              Commit |-> ZeroHash])

\* AddRepository as it would be without the test of the alias
AddRepository_NoValidation(alias, url, branch) ==
    /\ UNCHANGED codec
    /\ unreleased' = << >>
    /\ Ready
    /\ sourcesList' =
           AddRepositoryExecute(sourcesList, alias, url,
                                NewBranchReferenceName(branch))
    /\ last' = Called("AddRepository", alias, "nil")
    /\ replay' = KeepReplay(FALSE)
    /\ UNCHANGED <<registry, vms, subnets, installedVMs, head, tree, mirror,
                   pc, queue, passes>>

AddRepository(alias, url, branch) ==
    /\ UNCHANGED codec
    /\ unreleased' = << >>
    /\ Ready
    /\ IF ~ValidAlias(alias)
       THEN /\ last' = Called("AddRepository", alias, "invalid alias")
            /\ UNCHANGED sourcesList
       ELSE /\ sourcesList' =
                  AddRepositoryExecute(sourcesList, alias, url,
                                       NewBranchReferenceName(branch))
            /\ last' = Called("AddRepository", alias, "nil")
    /\ replay' = KeepReplay(FALSE)
    /\ UNCHANGED <<registry, vms, subnets, installedVMs, head, tree, mirror,
                   pc, queue, passes>>

\* APM.AddRepository (api.go) as it would be without the test of the
\* SourceInfo already stored
addRepository_Overwrites(list, alias, url) ==
    Put(list, alias,
        [Alias |-> alias, URL |-> url, Branch |-> << >>, Commit |-> ZeroHash])

\* APM.AddRepository (api.go): the Source-List it leaves
addRepository(list, alias, url) ==
    LET zero == [Alias |-> "", URL |-> "", Branch |-> << >>,
                 Commit |-> ZeroHash]
        sourceInfo == IF Has(list, alias) THEN list[alias] ELSE zero
        metadata == [Alias |-> alias, URL |-> url, Branch |-> << >>,
                     Commit |-> ZeroHash]
    IN IF sourceInfo # zero THEN list ELSE Put(list, alias, metadata)

APMAddRepository(alias, url) ==
    /\ UNCHANGED codec
    /\ unreleased' = << >>
    /\ Ready
    /\ sourcesList' = addRepository(sourcesList, alias, url)
    /\ last' = Called("APMAddRepository", alias, "nil")
    /\ replay' = KeepReplay(FALSE)
    /\ UNCHANGED <<registry, vms, subnets, installedVMs, head, tree, mirror,
                   pc, queue, passes>>

\* the urls AddRepository is called with for a repository
URLs(alias) == {URLOf(alias), "https://example.org/mirror.git"}

(***************************************************************************)
(* Update: the loop of Update.Execute, one repository per step.            *)
(***************************************************************************)
\* Update.Execute opens the iterator over the Source-List Store
UpdateBegin(list) ==
    /\ passes < MaxPasses
    /\ pc' = "update"
    /\ queue' = Ordered(RepoOrder, DOMAIN list)

\* New as it would be without the test of the commit stored for the core
\* repository: every start-up runs a full Update
New_AlwaysUpdates ==
    /\ UNCHANGED codec
    /\ unreleased' = << >>
    /\ pc = "idle"
    /\ sourcesList' =
           IF Has(sourcesList, CoreAlias) THEN sourcesList
           ELSE AddRepositoryExecute(sourcesList, CoreAlias, CoreURL,
                                     NewBranchReferenceName(CoreBranch))
    /\ UpdateBegin(sourcesList')
    /\ last' = Called("New", "", "nil")
    /\ replay' = KeepReplay(FALSE)
    /\ UNCHANGED <<registry, vms, subnets, installedVMs, head, tree, mirror,
                   passes>>

\* New: registers the core repository when it is missing, and bootstraps
\* (a full Update) when the commit stored for it is the zero hash
New ==
    /\ UNCHANGED codec
    /\ unreleased' = << >>
    /\ pc = "idle"
    /\ sourcesList' =
           IF Has(sourcesList, CoreAlias) THEN sourcesList
           ELSE AddRepositoryExecute(sourcesList, CoreAlias, CoreURL,
                                     NewBranchReferenceName(CoreBranch))
    /\ LET repoMetadata == sourcesList'[CoreAlias]
       IN IF repoMetadata.Commit = ZeroHash
          THEN UpdateBegin(sourcesList')
          ELSE UNCHANGED <<pc, queue>>
    /\ last' = Called("New", "", "nil")
    /\ replay' = KeepReplay(FALSE)
    /\ UNCHANGED <<registry, vms, subnets, installedVMs, head, tree, mirror,
                   passes>>

Update ==
    /\ UNCHANGED codec
    /\ unreleased' = << >>
    /\ Ready
    /\ UpdateBegin(sourcesList)
    /\ last' = Called("Update", "", "nil")
    /\ replay' = KeepReplay(FALSE)
    /\ UNCHANGED <<sourcesList, registry, vms, subnets, installedVMs, head,
                   tree, mirror, passes>>

\* UpdateReturn as it would be if the iterator were advanced twice after a
\* repository: the repository that follows is left out
UpdateReturn_SkipsNext(rest, err) ==
    IF err # "nil" THEN pc' = "idle" /\ queue' = << >>
    ELSE LET left == IF rest = << >> THEN rest ELSE Tail(rest)
         IN /\ queue' = left
            /\ pc' = IF left = << >> THEN "idle" ELSE "update"

\* UpdateReturn as it would be if an error were printed and the loop went on
UpdateReturn_GoesOn(rest, err) ==
    /\ queue' = rest
    /\ pc' = IF rest = << >> THEN "idle" ELSE "update"

\* the loop returns: with err, or nil once the iterator is exhausted
UpdateReturn(rest, err) ==
    IF err # "nil" THEN pc' = "idle" /\ queue' = << >>
    ELSE /\ queue' = rest
         /\ pc' = IF rest = << >> THEN "idle" ELSE "update"

\* the iterators a pass that stops at halt has opened and not released:
\* deleteStalePlugins opens one over the store it purges and returns without
\* releasing it; updateVMs releases its own when it returns
PassIterators(halt) ==
    (IF StageNo(halt.at) >= StageNo("purgeVMs") THEN <<"VMs">> ELSE << >>)
    \o (IF StageNo(halt.at) >= StageNo("purgeSubnets")
        THEN <<"Subnets">> ELSE << >>)
\* the iterator over the Source-List that Update.Execute opens: it is not
\* released when Execute returns
LoopIterators(returned) == IF returned THEN <<"sourcesList">> ELSE << >>

\* the reference Update.Execute passes to git.NewRemote for a repository
MirrorReference(sourceInfo) == <<"refs/heads/", "main">>

\* git.NewRemote / Head fails for the next repository
UpdateFetchFails ==
    /\ UNCHANGED codec
    /\ pc = "update" /\ queue # << >>
    /\ UpdateReturn(Tail(queue), "git")
    /\ unreleased' = LoopIterators(pc' = "idle")
    /\ last' = Fetched("Fetch", Head(queue), "git",
                       MirrorReference(sourcesList[Head(queue)]))
    /\ replay' = KeepReplay(FALSE)
    /\ UNCHANGED <<sourcesList, registry, vms, subnets, installedVMs, head,
                   tree, mirror, passes>>

\* UpdateSkip as it would be without the comparison of the two commits: the
\* pass runs although the repository is at its head commit
UpdateSkip_RunsPass ==
    /\ UNCHANGED codec
    /\ pc = "update" /\ queue # << >>
    /\ LET aliasBytes == Head(queue)
           sourceInfo == sourcesList[aliasBytes]
           latestCommit == head[aliasBytes]
           out == Execute(Stores, tree[aliasBytes], aliasBytes, sourceInfo,
                          latestCommit, NoHalt)
       IN /\ latestCommit = sourceInfo.Commit
          /\ sourcesList' = out.sourcesList
          /\ registry' = out.registry
          /\ vms' = out.vms
          /\ subnets' = out.subnets
          /\ installedVMs' = out.installedVMs
          /\ UpdateReturn(Tail(queue), out.err)
          /\ unreleased' = PassIterators(NoHalt) \o LoopIterators(pc' = "idle")
          /\ last' = Fetched("Skip", aliasBytes, out.err,
                             MirrorReference(sourceInfo))
    /\ mirror' = [mirror EXCEPT ![Head(queue)] = head[Head(queue)]]
    /\ replay' = KeepReplay(FALSE)
    /\ UNCHANGED <<head, tree, passes>>

\* the next repository is already at its head commit
UpdateSkip ==
    /\ UNCHANGED codec
    /\ pc = "update" /\ queue # << >>
    /\ LET aliasBytes == Head(queue)
           sourceInfo == sourcesList[aliasBytes]
           previousCommit == sourceInfo.Commit
           latestCommit == head[aliasBytes]
       IN /\ latestCommit = previousCommit
          /\ UpdateReturn(Tail(queue), "nil")
          /\ unreleased' = LoopIterators(pc' = "idle")
          /\ last' = Fetched("Skip", aliasBytes, "nil",
                             MirrorReference(sourceInfo))
    /\ mirror' = [mirror EXCEPT ![Head(queue)] = head[Head(queue)]]
    /\ replay' = KeepReplay(FALSE)
    /\ UNCHANGED <<sourcesList, registry, vms, subnets, installedVMs, head,
                   tree, passes>>

\* the next repository has a new head: one UpdateRepository pass
UpdatePass(halt) ==
    /\ UNCHANGED codec
    /\ pc = "update" /\ queue # << >>
    /\ LET aliasBytes == Head(queue)
           sourceInfo == sourcesList[aliasBytes]
           previousCommit == sourceInfo.Commit
           latestCommit == head[aliasBytes]
           out == Execute(Stores, tree[aliasBytes], aliasBytes, sourceInfo,
                          latestCommit, halt)
           whole == Execute(Stores, tree[aliasBytes], aliasBytes, sourceInfo,
                            latestCommit, NoHalt)
       IN /\ latestCommit # previousCommit
          /\ halt \in Halts(tree[aliasBytes])
          /\ sourcesList' = out.sourcesList
          /\ registry' = out.registry
          /\ vms' = out.vms
          /\ subnets' = out.subnets
          /\ installedVMs' = out.installedVMs
          /\ mirror' = [mirror EXCEPT ![aliasBytes] = latestCommit]
          /\ passes' = passes + 1
          /\ UpdateReturn(Tail(queue), out.err)
          /\ unreleased' = PassIterators(halt) \o LoopIterators(pc' = "idle")
          /\ last' = Fetched("Pass", aliasBytes, out.err,
                             MirrorReference(sourceInfo))
          /\ replay' =
               IF /\ out.err = "interrupted"
                  /\ halt.at \in {"updateVMs", "checkpoint"}
               THEN [phase |-> "pending", repo |-> aliasBytes,
                     commit |-> latestCommit, at |-> halt.at,
                     before |-> [vms |-> vms[aliasBytes],
                                 subnets |-> subnets[aliasBytes]],
                     uninterrupted |-> [vms |-> whole.vms[aliasBytes],
                                        subnets |-> whole.subnets[aliasBytes]],
                     once |-> [vms |-> out.vms[aliasBytes],
                               subnets |-> out.subnets[aliasBytes],
                               registry |-> out.registry]]
               ELSE IF /\ out.err = "nil"
                       /\ replay.phase = "pending"
                       /\ replay.repo = aliasBytes
                       /\ replay.commit = latestCommit
               THEN [replay EXCEPT !.phase = "done"]
               ELSE NoReplay
    /\ UNCHANGED <<head, tree>>

(***************************************************************************)
(* RemoveRepository.                                                       *)
(***************************************************************************)
\* OPM.ListRepositories: it iterates the Source-List and prints it
ListRepositories ==
    /\ UNCHANGED codec
    /\ Ready
    /\ unreleased' = LoopIterators(TRUE)
    /\ last' = Called("ListRepositories", "", "nil")
    /\ replay' = KeepReplay(FALSE)
    /\ UNCHANGED <<sourcesList, registry, vms, subnets, installedVMs, head,
                   tree, mirror, pc, queue, passes>>

\* OPM.RemoveRepository as it would be if its two loops iterated the whole
\* VM and subnet stores rather than the stores of the repository
RemoveRepository_EveryStore(alias) ==
    /\ UNCHANGED codec
    /\ unreleased' = << >>
    /\ Ready
    /\ IF alias = CoreAlias
       THEN UNCHANGED <<sourcesList, vms, subnets>>
       ELSE /\ vms' = [r \in DOMAIN vms |-> EmptyDB]
            /\ subnets' = [r \in DOMAIN subnets |-> EmptyDB]
            /\ sourcesList' = Delete(sourcesList, alias)
    /\ last' = Called("RemoveRepository", alias, "nil")
    /\ replay' = KeepReplay(alias # CoreAlias)
    /\ UNCHANGED <<registry, installedVMs, head, tree, mirror, pc, queue,
                   passes>>

\* OPM.RemoveRepository (opm.go)
\* OPM.RemoveRepository as it would be without the test for the core
\* repository
RemoveRepository_AnyAlias(alias) ==
    /\ UNCHANGED codec
    /\ unreleased' = << >>
    /\ Ready
    /\ vms' = StoreRepository(vms, alias, EmptyDB)
    /\ subnets' = StoreRepository(subnets, alias, EmptyDB)
    /\ sourcesList' = Delete(sourcesList, alias)
    /\ last' = Called("RemoveRepository", alias, "nil")
    /\ replay' = KeepReplay(TRUE)
    /\ UNCHANGED <<registry, installedVMs, head, tree, mirror, pc, queue,
                   passes>>

RemoveRepository(alias) ==
    /\ UNCHANGED codec
    /\ unreleased' = << >>
    /\ Ready
    /\ IF alias = CoreAlias
       THEN UNCHANGED <<sourcesList, vms, subnets>>
       ELSE /\ vms' = StoreRepository(vms, alias, EmptyDB)
            /\ subnets' = StoreRepository(subnets, alias, EmptyDB)
            /\ sourcesList' = Delete(sourcesList, alias)
    /\ last' = Called("RemoveRepository", alias, "nil")
    /\ replay' = KeepReplay(alias # CoreAlias)
    /\ UNCHANGED <<registry, installedVMs, head, tree, mirror, pc, queue,
                   passes>>

\* APM.removeRepository (api.go): both loops iterate the VM store
removeRepository(name) ==
    /\ UNCHANGED codec
    /\ unreleased' = << >>
    /\ Ready
    /\ IF name = CoreAlias
       THEN UNCHANGED <<sourcesList, vms>>
       ELSE /\ vms' = StoreRepository(vms, name, EmptyDB)
            /\ sourcesList' = Delete(sourcesList, name)
    /\ last' = Called("removeRepository", name, "nil")
    /\ replay' = KeepReplay(name # CoreAlias)
    /\ UNCHANGED <<registry, subnets, installedVMs, head, tree, mirror, pc,
                   queue, passes>>

(***************************************************************************)
(* Name resolution and the commands run through it.                        *)
(***************************************************************************)
\* getFullNameForAlias as it would be without the check of the length of the
\* list: the first repository listed is taken
getFullNameForAlias_First(reg, alias) ==
    IF ~Has(reg, alias[1])
    THEN [fullName |-> NoName, err |-> "ErrNotFound", matches |-> << >>]
    ELSE [fullName |-> FullName(reg[alias[1]].Repositories[1], alias),
          err |-> "nil", matches |-> << >>]

getFullNameForAlias(reg, alias) ==
    IF ~Has(reg, alias[1])
    THEN [fullName |-> NoName, err |-> "ErrNotFound", matches |-> << >>]
    ELSE LET repoList == reg[alias[1]]
         IN IF Len(repoList.Repositories) > 1
            THEN [fullName |-> NoName, err |-> "more than one match",
                  matches |-> repoList.Repositories]
            ELSE [fullName |-> FullName(repoList.Repositories[1], alias),
                  err |-> "nil", matches |-> << >>]

\* parseAndRun up to the call of the command: the name the command is run
\* with (NoName when no command runs) and whether the registry was read
parseAndRun(alias, reg) ==
    IF qualifiedName(alias)
    THEN [run |-> alias, err |-> "nil", matches |-> << >>, consulted |-> FALSE]
    ELSE LET found == getFullNameForAlias(reg, alias)
         IN [run |-> found.fullName, err |-> found.err,
             matches |-> found.matches, consulted |-> TRUE]

\* OPM.install as it would be without the test of the installed-VM store
install_Always(installed, repoVMs, name) ==
    LET parsed == ParseQualifiedName(name)
        done == InstallWorkflow(installed, Repository(repoVMs, parsed.alias),
                                name, parsed.plugin)
    IN [installedVMs |-> done.installedVMs, err |-> done.err,
        executed |-> TRUE]

\* OPM.install; executed tells whether the install workflow was executed
install(installed, repoVMs, name) ==
    IF Has(installed, name)
    THEN [installedVMs |-> installed, err |-> "nil", executed |-> FALSE]
    ELSE LET parsed == ParseQualifiedName(name)
             done == InstallWorkflow(installed,
                                     Repository(repoVMs, parsed.alias),
                                     name, parsed.plugin)
         IN [installedVMs |-> done.installedVMs, err |-> done.err,
             executed |-> TRUE]

\* the Uninstall workflow
UninstallWorkflow(installed, vmStorage, name, plugin) ==
    IF ~Has(installed, name) \/ ~Has(vmStorage, plugin)
    THEN [installedVMs |-> installed, err |-> "nil"]
    ELSE [installedVMs |-> Delete(installed, name), err |-> "nil"]

\* OPM.uninstall
uninstall(installed, repoVMs, name) ==
    LET parsed == ParseQualifiedName(name)
    IN UninstallWorkflow(installed, Repository(repoVMs, parsed.alias), name,
                         parsed.plugin)

\* APM.uninstall (api.go): the record is looked up under the qualified name
\* and deleted under the name of the plugin
APMuninstall(installed, repoVMs, name) ==
    LET parsed == ParseQualifiedName(name)
    IN IF ~Has(installed, name) THEN [installedVMs |-> installed, err |-> "nil"]
       ELSE IF ~Has(Repository(repoVMs, parsed.alias), parsed.plugin)
       THEN [installedVMs |-> installed, err |-> "nil"]
       ELSE [installedVMs |-> Delete(installed, <<parsed.plugin>>),
             err |-> "nil"]

\* the UpgradeVM workflow
UpgradeVMWorkflow(installed, vmStorage, name, plugin) ==
    IF ~Has(installed, name) \/ ~Has(vmStorage, plugin)
    THEN [installedVMs |-> installed, err |-> "ErrNotFound"]
    ELSE IF Compare(installed[name], vmStorage[plugin].Definition.Version) >= 0
    THEN [installedVMs |-> installed, err |-> "nil"]
    ELSE InstallWorkflow(installed, vmStorage, name, plugin)

\* OPM.upgradeVM
upgradeVM(installed, repoVMs, name) ==
    LET parsed == ParseQualifiedName(name)
    IN UpgradeVMWorkflow(installed, Repository(repoVMs, parsed.alias), name,
                         parsed.plugin)

\* the loop of OPM.joinSubnet that installs the VMs the subnet requires
RECURSIVE installRequired(_, _, _, _)
installRequired(required, alias, installed, repoVMs) ==
    IF required = << >>
    THEN [installedVMs |-> installed, err |-> "nil", installs |-> << >>]
    ELSE LET vm == Head(required)
             name == FullName(alias, <<vm>>)
             resolved == parseAndRun(name, registry)
             done == install(installed, repoVMs, resolved.run)
             rest == installRequired(Tail(required), alias,
                                     done.installedVMs, repoVMs)
         IN IF resolved.err # "nil"
            THEN [installedVMs |-> installed, err |-> resolved.err,
                  installs |-> <<name>>]
            ELSE IF done.err # "nil"
            THEN [installedVMs |-> done.installedVMs, err |-> done.err,
                  installs |-> <<name>>]
            ELSE [rest EXCEPT !.installs = <<name>> \o @]

\* OPM.joinSubnet; loadVMs and whitelist are the answers of the admin API
joinSubnet(installed, repoVMs, repoSubnets, fullName, loadVMs, whitelist) ==
    LET parsed == ParseQualifiedName(fullName)
    IN IF ~Has(Repository(repoSubnets, parsed.alias), parsed.plugin)
       THEN [installedVMs |-> installed, err |-> "ErrNotFound",
             installs |-> << >>, admin |-> << >>]
       ELSE
         LET subnet ==
                 Repository(repoSubnets, parsed.alias)[parsed.plugin].Definition
             inst == installRequired(subnet.VMs, parsed.alias, installed,
                                     repoVMs)
         IN IF inst.err # "nil"
            THEN [installedVMs |-> inst.installedVMs, err |-> inst.err,
                  installs |-> inst.installs, admin |-> << >>]
            ELSE IF loadVMs \notin {"nil", "ECONNREFUSED"}
            THEN [installedVMs |-> inst.installedVMs, err |-> loadVMs,
                  installs |-> inst.installs, admin |-> <<"LoadVMs">>]
            ELSE IF whitelist \notin {"nil", "ECONNREFUSED"}
            THEN [installedVMs |-> inst.installedVMs, err |-> whitelist,
                  installs |-> inst.installs,
                  admin |-> <<"LoadVMs", "WhitelistSubnet">>]
            ELSE [installedVMs |-> inst.installedVMs, err |-> "nil",
                  installs |-> inst.installs,
                  admin |-> <<"LoadVMs", "WhitelistSubnet">>]

\* the loop of APM.joinSubnet (api.go): Install is called with the name of
\* the VM as the subnet definition lists it
RECURSIVE APMinstallRequired(_, _, _)
APMinstallRequired(required, installed, repoVMs) ==
    IF required = << >>
    THEN [installedVMs |-> installed, err |-> "nil", installs |-> << >>]
    ELSE LET vm == Head(required)
             name == <<vm>>
             resolved == parseAndRun(name, registry)
             done == install(installed, repoVMs, resolved.run)
             rest == APMinstallRequired(Tail(required), done.installedVMs,
                                        repoVMs)
         IN IF resolved.err # "nil"
            THEN [installedVMs |-> installed, err |-> resolved.err,
                  installs |-> <<name>>]
            ELSE IF done.err # "nil"
            THEN [installedVMs |-> done.installedVMs, err |-> done.err,
                  installs |-> <<name>>]
            ELSE [rest EXCEPT !.installs = <<name>> \o @]

\* APM.joinSubnet (api.go): every error of the admin API is returned
APMjoinSubnet(installed, repoVMs, repoSubnets, fullName, loadVMs, whitelist) ==
    LET parsed == ParseQualifiedName(fullName)
    IN IF ~Has(Repository(repoSubnets, parsed.alias), parsed.plugin)
       THEN [installedVMs |-> installed, err |-> "ErrNotFound",
             installs |-> << >>, admin |-> << >>]
       ELSE
         LET subnet ==
                 Repository(repoSubnets, parsed.alias)[parsed.plugin].Definition
             inst == APMinstallRequired(subnet.VMs, installed, repoVMs)
         IN IF inst.err # "nil"
            THEN [installedVMs |-> inst.installedVMs, err |-> inst.err,
                  installs |-> inst.installs, admin |-> << >>]
            ELSE IF loadVMs # "nil"
            THEN [installedVMs |-> inst.installedVMs, err |-> loadVMs,
                  installs |-> inst.installs, admin |-> <<"LoadVMs">>]
            ELSE IF whitelist # "nil"
            THEN [installedVMs |-> inst.installedVMs, err |-> whitelist,
                  installs |-> inst.installs,
                  admin |-> <<"LoadVMs", "WhitelistSubnet">>]
            ELSE [installedVMs |-> inst.installedVMs, err |-> "nil",
                  installs |-> inst.installs,
                  admin |-> <<"LoadVMs", "WhitelistSubnet">>]

\* a command called through parseAndRun: `command` is what it does with the
\* resolved name
Command(op, alias, resolved, out) ==
    /\ UNCHANGED codec
    /\ unreleased' = << >>
    /\ Ready
    /\ installedVMs' = IF resolved.err = "nil" THEN out.installedVMs
                       ELSE installedVMs
    /\ last' = [op |-> op, arg |-> resolved.run,
                err |-> IF resolved.err = "nil" THEN out.err ELSE resolved.err,
                alias |-> alias, consulted |-> resolved.consulted,
                matches |-> resolved.matches, reference |-> << >>,
                installs |-> IF resolved.err = "nil" /\ op \in JoinOps
                             THEN out.installs ELSE << >>,
                admin |-> IF resolved.err = "nil" /\ op \in JoinOps
                          THEN out.admin ELSE << >>]
    /\ replay' = KeepReplay(FALSE)
    /\ UNCHANGED <<sourcesList, registry, vms, subnets, head, tree, mirror,
                   pc, queue, passes>>

\* OPM.Install
Install(alias) ==
    LET resolved == parseAndRun(alias, registry)
    IN Command("Install", alias, resolved,
               install(installedVMs, vms, resolved.run))

\* OPM.info: it returns nil
info(installed, fullName) ==
    [installedVMs |-> installed, err |-> "nil", executed |-> FALSE]

\* what OPM.Info does with alias: a qualified name is passed to install, a
\* bare one is resolved with the Alias Registry and passed to info
InfoRuns(alias) ==
    IF qualifiedName(alias)
    THEN [resolved |-> [run |-> alias, err |-> "nil", matches |-> << >>,
                        consulted |-> FALSE],
          out |-> install(installedVMs, vms, alias)]
    ELSE LET found == getFullNameForAlias(registry, alias)
         IN [resolved |-> [run |-> found.fullName, err |-> found.err,
                           matches |-> found.matches, consulted |-> TRUE],
             out |-> info(installedVMs, found.fullName)]

\* OPM.Info
Info(alias) ==
    Command("Info", alias, InfoRuns(alias).resolved, InfoRuns(alias).out)

\* OPM.Uninstall
Uninstall(alias) ==
    LET resolved == parseAndRun(alias, registry)
    IN Command("Uninstall", alias, resolved,
               uninstall(installedVMs, vms, resolved.run))

\* OPM.Upgrade with an alias
Upgrade(alias) ==
    LET resolved == parseAndRun(alias, registry)
    IN Command("Upgrade", alias, resolved,
               upgradeVM(installedVMs, vms, resolved.run))

\* OPM.JoinSubnet
JoinSubnet(alias, loadVMs, whitelist) ==
    LET resolved == parseAndRun(alias, registry)
    IN Command("JoinSubnet", alias, resolved,
               joinSubnet(installedVMs, vms, subnets, resolved.run, loadVMs,
                          whitelist))

\* APM.JoinSubnet (api.go)
APMJoinSubnet(alias, loadVMs, whitelist) ==
    LET resolved == parseAndRun(alias, registry)
    IN Command("APMJoinSubnet", alias, resolved,
               APMjoinSubnet(installedVMs, vms, subnets, resolved.run,
                             loadVMs, whitelist))

\* APM.Uninstall (api.go)
APMUninstall(alias) ==
    LET resolved == parseAndRun(alias, registry)
    IN Command("APMUninstall", alias, resolved,
               APMuninstall(installedVMs, vms, resolved.run))

\* the names a command is called with: bare and qualified
Aliases ==
    {<<n>> : n \in Names} \cup {FullName(r, <<n>>) : r \in Repos, n \in Names}
\* the names APM.JoinSubnet is called with
APMJoinAliases ==
    {<<"net">>, <<"foo">>} \cup {FullName(r, <<"net">>) : r \in Repos}
\* what LoadVMs and WhitelistSubnet answer
AdminAnswers ==
    {<<"nil", "nil">>, <<"ECONNREFUSED", "ECONNREFUSED">>, <<"other", "nil">>,
     <<"nil", "other">>}

\* the names Install is called with while repositories are synchronised
InstallAliases == {<<"foo">>, <<"bar">>, FullName(RepoA, <<"foo">>)}

\* where a pass stops: while it loads the VM files, after the stale purge
\* (before or after updateVMs), or not at all
Interruptions ==
    {[at |-> "loadVMs", k |-> k] : k \in 0..Cardinality(Names)}
    \cup {[at |-> "updateVMs", k |-> 0], [at |-> "checkpoint", k |-> 0], NoHalt}

Next ==
    \/ \E r \in Repos : Push(r)
    \/ New
    \/ \E alias \in Repos \cup {"repoA"}, branch \in Branches :
          AddRepository(alias, URLOf(alias), branch)
    \/ Update
    \/ UpdateFetchFails
    \/ UpdateSkip
    \/ \E halt \in Interruptions : UpdatePass(halt)
    \/ \E alias \in Repos : RemoveRepository(alias)
    \/ \E name \in Repos : removeRepository(name)
    \/ \E alias \in InstallAliases : Install(alias)

Spec == Init /\ [][Next]_vars

\* the commands, with passes that run to their end
NextCommands ==
    \/ \E r \in Repos : Push(r)
    \/ New
    \/ \E alias \in Repos, branch \in Branches :
          AddRepository(alias, URLOf(alias), branch)
    \/ Update
    \/ UpdateSkip
    \/ UpdatePass(NoHalt)
    \/ \E alias \in Aliases : Install(alias)
    \/ \E alias \in Aliases : Uninstall(alias)
    \/ \E alias \in Aliases : Upgrade(alias)
    \/ \E alias \in Aliases, answers \in AdminAnswers :
          JoinSubnet(alias, answers[1], answers[2])

SpecCommands == Init /\ [][NextCommands]_vars

\* JoinSubnet, of OPM and of APM, on synchronised repositories
NextJoin ==
    \/ \E r \in Repos : Push(r)
    \/ New
    \/ \E alias \in Repos : AddRepository(alias, URLOf(alias), CoreBranch)
    \/ Update
    \/ UpdateSkip
    \/ UpdatePass(NoHalt)
    \/ \E alias \in Aliases, answers \in AdminAnswers :
          JoinSubnet(alias, answers[1], answers[2])
    \/ \E alias \in APMJoinAliases, answers \in AdminAnswers :
          APMJoinSubnet(alias, answers[1], answers[2])
SpecJoin == Init /\ [][NextJoin]_vars

\* Install and APM.Uninstall on synchronised repositories
NextUninstall ==
    \/ \E r \in Repos : Push(r)
    \/ New
    \/ \E alias \in Repos : AddRepository(alias, URLOf(alias), CoreBranch)
    \/ Update
    \/ UpdateSkip
    \/ UpdatePass(NoHalt)
    \/ \E alias \in Aliases : Install(alias)
    \/ \E alias \in Aliases : APMUninstall(alias)
SpecUninstall == Init /\ [][NextUninstall]_vars

\* AddRepository, Update, RemoveRepository and ListRepositories, every pass
\* running to its end
NextTrack ==
    \/ \E r \in Repos : Push(r)
    \/ New
    \/ \E alias \in AddAliases : AddRepository(alias, URLOf(alias), CoreBranch)
    \/ \E alias \in Repos : \E url \in URLs(alias) : APMAddRepository(alias, url)
    \/ Update
    \/ UpdateSkip
    \/ UpdatePass(NoHalt)
    \/ \E alias \in Repos : RemoveRepository(alias)
    \/ \E name \in Repos : removeRepository(name)
    \/ ListRepositories
SpecTrack == Init /\ [][NextTrack]_vars

\* start-up and Update, with fetches that fail and passes that are
\* interrupted
NextStart ==
    \/ \E r \in Repos : Push(r)
    \/ New
    \/ \E alias \in Repos : AddRepository(alias, URLOf(alias), CoreBranch)
    \/ Update
    \/ UpdateFetchFails
    \/ UpdateSkip
    \/ \E halt \in Interruptions : UpdatePass(halt)
SpecStart == Init /\ [][NextStart]_vars

\* Info on synchronised repositories
NextInfo ==
    \/ \E r \in Repos : Push(r)
    \/ New
    \/ \E alias \in Repos : AddRepository(alias, URLOf(alias), CoreBranch)
    \/ Update
    \/ UpdateSkip
    \/ UpdatePass(NoHalt)
    \/ \E alias \in Aliases : Info(alias)
SpecInfo == Init /\ [][NextInfo]_vars

\* AddRepository and Update only, every pass running to its end
NextSync ==
    \/ \E r \in Repos : Push(r)
    \/ New
    \/ \E alias \in AddAliases : AddRepository(alias, URLOf(alias), CoreBranch)
    \/ Update
    \/ UpdateSkip
    \/ UpdatePass(NoHalt)
SpecSync == Init /\ [][NextSync]_vars

(***************************************************************************)
(* The stored format of a definition record.  Storage.Put encodes a value  *)
(* as a YAML document and Storage.Get decodes it; the keys of the mapping  *)
(* are the yaml tags of the struct fields, in field order.  A node is a    *)
(* scalar, a sequence of nodes or a mapping (a sequence of <<key, node>>). *)
(***************************************************************************)
HashLen == 20   \* bytes of a plumbing.Hash

\* the fields of types.VM: Go name, yaml tag, type
VMFields_SharedTag ==
    <<[field |-> "ID_", tag |-> "id", kind |-> "string"],
      [field |-> "Alias_", tag |-> "alias", kind |-> "string"],
      [field |-> "Homepage_", tag |-> "url", kind |-> "string"],
      [field |-> "Description_", tag |-> "description", kind |-> "string"],
      [field |-> "Maintainers_", tag |-> "maintainers", kind |-> "strings"],
      [field |-> "InstallScript_", tag |-> "installScript", kind |-> "string"],
      [field |-> "URL_", tag |-> "url", kind |-> "string"],
      [field |-> "SHA256_", tag |-> "sha256", kind |-> "string"]>>
VMFields ==
    <<[field |-> "ID_", tag |-> "id", kind |-> "string"],
      [field |-> "Alias_", tag |-> "alias", kind |-> "string"],
      [field |-> "Homepage_", tag |-> "homepage", kind |-> "string"],
      [field |-> "Description_", tag |-> "description", kind |-> "string"],
      [field |-> "Maintainers_", tag |-> "maintainers", kind |-> "strings"],
      [field |-> "InstallScript_", tag |-> "installScript", kind |-> "string"],
      [field |-> "URL_", tag |-> "url", kind |-> "string"],
      [field |-> "SHA256_", tag |-> "sha256", kind |-> "string"]>>
\* the fields of types.Subnet: those of a definition file, and the required VMs
SubnetFields ==
    VMFields \o <<[field |-> "VMs_", tag |-> "vms", kind |-> "strings"]>>
\* the fields of Plugin[T]: the definition and the commit it was loaded at
PluginFields(T) ==
    <<[field |-> "Plugin", tag |-> "plugin", kind |-> T],
      [field |-> "Commit", tag |-> "commit", kind |-> "hash"]>>

FieldsOf(kind) ==
    IF kind = "VM" THEN VMFields
    ELSE IF kind = "Subnet" THEN SubnetFields
    ELSE IF kind = "Plugin[VM]" THEN PluginFields("VM")
    ELSE PluginFields("Subnet")

\* a commit as the HashLen bytes of its hash, and back
HashBytes(commit) == [i \in 1..HashLen |-> IF i = HashLen THEN commit ELSE 0]
HashOf(bytes) == IF Len(bytes) = HashLen THEN bytes[HashLen] ELSE ZeroHash

Scalar(value) == [node |-> "scalar", value |-> value]
SequenceOf(items) == [node |-> "sequence", value |-> items]
Mapping(pairs) == [node |-> "mapping", value |-> pairs]

RECURSIVE Marshal(_, _)
\* yaml.Marshal of a value of type `kind`
Marshal(kind, v) ==
    IF kind = "string" THEN Scalar(v)
    ELSE IF kind = "strings"
         THEN SequenceOf([i \in DOMAIN v |-> Scalar(v[i])])
    ELSE IF kind = "hash"
         THEN SequenceOf([i \in 1..HashLen |-> Scalar(HashBytes(v)[i])])
    ELSE LET fields == FieldsOf(kind)
         IN Mapping([i \in DOMAIN fields |->
                       <<fields[i].tag,
                         Marshal(fields[i].kind, v[fields[i].field])>>])

RECURSIVE Zero(_)
\* the zero value of a type
Zero(kind) ==
    IF kind = "string" THEN ""
    ELSE IF kind = "strings" THEN << >>
    ELSE IF kind = "hash" THEN ZeroHash
    ELSE LET fields == FieldsOf(kind)
         IN [f \in {fields[i].field : i \in DOMAIN fields} |->
               LET i == CHOOSE i \in DOMAIN fields : fields[i].field = f
               IN Zero(fields[i].kind)]

RECURSIVE Unmarshal(_, _)
\* yaml.Unmarshal of a node into a value of type `kind`: a field takes the
\* node found under its tag, and keeps its zero value when there is none
Unmarshal(kind, doc) ==
    IF kind = "string" THEN doc.value
    ELSE IF kind = "strings"
         THEN [i \in DOMAIN doc.value |-> doc.value[i].value]
    ELSE IF kind = "hash"
         THEN HashOf([i \in DOMAIN doc.value |-> doc.value[i].value])
    ELSE LET fields == FieldsOf(kind)
             pairs == doc.value
         IN [f \in {fields[i].field : i \in DOMAIN fields} |->
               LET i == CHOOSE i \in DOMAIN fields : fields[i].field = f
                   found == {j \in DOMAIN pairs : pairs[j][1] = fields[i].tag}
               IN IF found = {} THEN Zero(fields[i].kind)
                  ELSE Unmarshal(fields[i].kind,
                                 pairs[CHOOSE j \in found :
                                          \A k \in found : k <= j][2])]

\* the values the fields of the records take
Texts == {"", "x"}
TextLists == {<< >>, <<"a">>, <<"b", "a">>}
Commits == {ZeroHash, 1, 2}
VMRecords ==
    [ID_ : Texts, Alias_ : Texts, Homepage_ : Texts, Description_ : Texts,
     Maintainers_ : TextLists, InstallScript_ : Texts, URL_ : Texts,
     SHA256_ : Texts]
SubnetRecords ==
    [ID_ : Texts, Alias_ : Texts, Homepage_ : Texts, Description_ : {""},
     Maintainers_ : TextLists, InstallScript_ : {""}, URL_ : Texts,
     SHA256_ : {"x"}, VMs_ : TextLists]
DefinitionRecords ==
    {[kind |-> "Plugin[VM]", value |-> [Plugin |-> p, Commit |-> c]] :
        p \in VMRecords, c \in Commits}
    \cup {[kind |-> "Plugin[Subnet]", value |-> [Plugin |-> p, Commit |-> c]] :
            p \in SubnetRecords, c \in Commits}

\* Storage.Put: the record is encoded and written
StoragePut ==
    /\ codec.pc = "new"
    /\ codec' = [codec EXCEPT !.pc = "stored",
                              !.stored = Marshal(codec.kind, codec.value)]
    /\ UNCHANGED <<sourcesList, registry, vms, subnets, installedVMs, head,
                   tree, mirror, pc, queue, passes, last, replay,
                   unreleased>>

\* Storage.Get: what was written is read and decoded
StorageGet ==
    /\ codec.pc = "stored"
    /\ codec' = [codec EXCEPT !.pc = "loaded",
                              !.loaded = Unmarshal(codec.kind, codec.stored)]
    /\ UNCHANGED <<sourcesList, registry, vms, subnets, installedVMs, head,
                   tree, mirror, pc, queue, passes, last, replay,
                   unreleased>>

\* a definition record is stored and read back
InitCodec ==
    /\ sourcesList = EmptyDB
    /\ registry = EmptyDB
    /\ vms = [r \in Repos |-> EmptyDB]
    /\ subnets = [r \in Repos |-> EmptyDB]
    /\ installedVMs = EmptyDB
    /\ head = [r \in Repos |-> FirstCommit(r)]
    /\ tree = [r \in Repos |-> TreeOne]
    /\ mirror = [r \in Repos |-> ZeroHash]
    /\ pc = "idle"
    /\ queue = << >>
    /\ passes = 0
    /\ last = Called("none", "", "nil")
    /\ replay = NoReplay
    /\ unreleased = << >>
    /\ codec \in {[pc |-> "new", kind |-> d.kind, value |-> d.value,
                   stored |-> << >>, loaded |-> << >>] :
                     d \in DefinitionRecords}
NextCodec ==
    \/ StoragePut
    \/ StorageGet
SpecCodec == InitCodec /\ [][NextCodec]_vars

(***************************************************************************)
(* Properties of Update and of the UpdateRepository pass.                  *)
(***************************************************************************)
\* the repository the loop of Update handles next is at its head commit
AtHead == pc = "update" /\ queue # << >>
          /\ head[Head(queue)] = sourcesList[Head(queue)].Commit

\* C1: a step of Update for a repository whose remote head equals the commit
\* recorded for it writes nothing to the Source-List, the Alias Registry,
\* the repository stores or the Installed-VMs store; and when Update returns
\* nil every tracked repository is at its remote head, so that a second
\* Update with no upstream change takes only such steps.
C1_UpdateAtHeadIsNoOp ==
    [][/\ AtHead => UNCHANGED <<sourcesList, registry, vms, subnets,
                                installedVMs>>
       /\ (pc = "update" /\ pc' = "idle" /\ last'.err = "nil")
            => \A r \in DOMAIN sourcesList' : sourcesList'[r].Commit = head'[r]
      ]_vars

\* Update has returned nil after skipping RepoA, whose definitions are stored
C1_Witness ==
    /\ pc = "idle"
    /\ last = Fetched("Skip", RepoA, "nil", <<"refs/heads/", "main">>)
    /\ vms[RepoA] # EmptyDB

\* C2: when a pass interrupted after the purge and before the checkpoint
\* has been run again on the same commit, the VM and subnet stores of the
\* repository hold what one uninterrupted pass would have left.
C2_RerunEqualsUninterrupted ==
    replay.phase = "done"
        => /\ vms[replay.repo] = replay.uninterrupted.vms
           /\ subnets[replay.repo] = replay.uninterrupted.subnets

\* the rerun has ended, and the interrupted pass had purged a definition
C2_Witness ==
    /\ replay.phase = "done"
    /\ \E k \in DOMAIN replay.before.vms : ~Has(vms[replay.repo], k)
    /\ vms[replay.repo] # EmptyDB

\* C3: reprocessing a commit leaves the repository stores and the Alias
\* Registry as the first processing of that commit left them.
C3_ReprocessingIdempotent ==
    (replay.phase = "done" /\ replay.at = "checkpoint")
        => /\ vms[replay.repo] = replay.once.vms
           /\ subnets[replay.repo] = replay.once.subnets
           /\ registry = replay.once.registry

\* C4: after a pass that returned nil, every definition in the VM store and
\* in the subnet store of its repository carries the commit of that pass.
C4_AllAtLatestCommit ==
    (last.op = "Pass" /\ last.err = "nil")
        => /\ \A k \in DOMAIN vms[last.arg] :
                  vms[last.arg][k].Commit = head[last.arg]
           /\ \A k \in DOMAIN subnets[last.arg] :
                  subnets[last.arg][k].Commit = head[last.arg]
           /\ sourcesList[last.arg].Commit = head[last.arg]

\* a later pass of a repository has returned nil and left definitions
C4_Witness ==
    /\ last.op = "Pass" /\ last.err = "nil"
    /\ head[last.arg] # FirstCommit(last.arg)
    /\ vms[last.arg] # EmptyDB /\ subnets[last.arg] # EmptyDB

(***************************************************************************)
(* Properties of name resolution.                                          *)
(***************************************************************************)
\* the Alias Registry entry of the bare name lists two different repositories
Ambiguous(name) ==
    /\ Has(registry, name)
    /\ \E i, j \in DOMAIN registry[name].Repositories :
          registry[name].Repositories[i] # registry[name].Repositories[j]

\* C5: Install, Uninstall, Upgrade and JoinSubnet called with a bare name
\* whose Alias Registry entry lists two different repositories fail with
\* the ambiguity error that lists the candidates, run no command and leave
\* the Installed-VMs store alone; called with a qualified name they run
\* with exactly that name without reading the Alias Registry, never fail as
\* ambiguous, and every version they record is the one of the definition
\* in the store of the repository the name is qualified with.
C5_AmbiguousBareNameFails ==
    [][last'.op \in CommandOps =>
        LET alias == last'.alias
        IN /\ (~qualifiedName(alias) /\ Ambiguous(alias[1]))
                => /\ last'.err = "more than one match"
                   /\ last'.matches = registry[alias[1]].Repositories
                   /\ last'.arg = NoName
                   /\ UNCHANGED installedVMs
           /\ qualifiedName(alias)
                => /\ ~last'.consulted
                   /\ last'.arg = alias
                   /\ last'.err # "more than one match"
                   /\ \A k \in DOMAIN installedVMs' :
                        (~Has(installedVMs, k) \/ installedVMs'[k] # installedVMs[k])
                            => /\ k[1] = alias[1]
                               /\ installedVMs'[k] =
                                    vms[k[1]][k[3]].Definition.Version
      ]_vars

\* a command called with bare foo has failed, listing both repositories,
\* while foo of RepoA is installed under its qualified name
C5_Witness ==
    /\ last.op \in CommandOps
    /\ last.alias = <<"foo">>
    /\ last.err = "more than one match"
    /\ last.matches = <<CoreAlias, RepoA>>
    /\ Has(installedVMs, FullName(RepoA, <<"foo">>))

\* the tracked repositories that define the bare name, as a VM or a subnet
DefinedBy(name) ==
    {r \in DOMAIN sourcesList : Has(vms[r], name) \/ Has(subnets[r], name)}

\* C6: a bare name defined by exactly one tracked repository r resolves to
\* the qualified name r:name.
C6_UniqueNameResolves ==
    pc = "idle" =>
        \A name \in Names : \A r \in Repos :
            DefinedBy(name) = {r}
                => getFullNameForAlias(registry, <<name>>) =
                       [fullName |-> FullName(r, <<name>>), err |-> "nil",
                        matches |-> << >>]

(***************************************************************************)
(* Properties of the repository namespaces.                                *)
(***************************************************************************)
\* the stores of repository B and its Source-List entry are left as they are
SameRepository(B) ==
    /\ vms'[B] = vms[B]
    /\ subnets'[B] = subnets[B]
    /\ Has(sourcesList', B) = Has(sourcesList, B)
    /\ Has(sourcesList, B) => sourcesList'[B] = sourcesList[B]

\* C7: RemoveRepository(A), of OPM and of APM, leaves the VM and subnet
\* definitions and the Source-List entry of every other repository B as
\* they are.
C7_RemoveKeepsOthers ==
    [][\A A \in Repos :
          (RemoveRepository(A) \/ removeRepository(A))
              => \A B \in Repos \ {A} : SameRepository(B)]_vars

\* RepoA has been removed, it had defined foo, and the core repository
\* still holds its own foo
C7_Witness ==
    /\ last = Called("RemoveRepository", RepoA, "nil")
    /\ ~Has(sourcesList, RepoA)
    /\ Has(registry, "foo")
    /\ \E i \in DOMAIN registry["foo"].Repositories :
          registry["foo"].Repositories[i] = RepoA
    /\ Has(vms[CoreAlias], "foo")

\* C8: a pass of repository A, wherever it stops, leaves the VM and subnet
\* definitions of every other repository B as they are.
C8_PassKeepsOthers ==
    [][\A halt \in Interruptions :
          UpdatePass(halt)
              => \A B \in Repos \ {Head(queue)} :
                    vms'[B] = vms[B] /\ subnets'[B] = subnets[B]]_vars

\* a pass of the core repository has purged its stale bar while RepoA holds
\* foo, an alias the core repository defines too, tagged with another commit
C8_Witness ==
    /\ last = Fetched("Pass", CoreAlias, "nil", <<"refs/heads/", "main">>)
    /\ Has(vms[CoreAlias], "foo") /\ Has(vms[RepoA], "foo")
    /\ vms[RepoA]["foo"].Commit # head[CoreAlias]
    /\ Has(registry, "bar") /\ ~Has(vms[CoreAlias], "bar")

\* C9: after RemoveRepository(A) has returned nil for a repository A other
\* than the core repository, A is not in the Source-List and the namespace
\* of A holds no VM definition and no subnet definition.
C9_RemoveEmptiesNamespace ==
    (/\ last.op \in {"RemoveRepository", "removeRepository"}
     /\ last.arg # CoreAlias /\ last.err = "nil")
        => /\ ~Has(sourcesList, last.arg)
           /\ vms[last.arg] = EmptyDB
           /\ subnets[last.arg] = EmptyDB

\* the directory entries loadFromYAML reads a definition from
LoadedFiles(files) ==
    {i \in DOMAIN files : ~files[i].isDir /\ files[i].base # ""}
FileAliases(key, files) ==
    {files[i].data[key].Alias : i \in LoadedFiles(files)}

\* C10: the first pass of a never-synced repository whose vms/ files define
\* distinct aliases, run from an empty Alias Registry, leaves exactly these
\* definitions in the VM store, tagged with the head commit, moves the
\* Source-List commit from the zero hash to the head, and maps every one of
\* the aliases to the list that holds the alias of the repository once.
C10_FirstSync ==
    [][(/\ UpdatePass(NoHalt)
        /\ last'.err = "nil"
        /\ registry = EmptyDB
        /\ sourcesList[Head(queue)].Commit = ZeroHash
        /\ Cardinality(FileAliases(vmKey, tree[Head(queue)].vms)) =
               Cardinality(LoadedFiles(tree[Head(queue)].vms)))
       => LET r == Head(queue)
              files == tree[r].vms
          IN /\ DOMAIN vms'[r] = FileAliases(vmKey, files)
             /\ \A i \in LoadedFiles(files) :
                   vms'[r][files[i].data[vmKey].Alias] =
                       [Definition |-> files[i].data[vmKey],
                        Commit |-> head[r]]
             /\ head[r] # ZeroHash
             /\ sourcesList'[r].Commit = head[r]
             /\ \A a \in FileAliases(vmKey, files) :
                   registry'[a].Repositories = <<r>>]_vars

(***************************************************************************)
(* Properties of a later pass and of its failures.                         *)
(***************************************************************************)
\* the store `after` has lost exactly the definitions of `before` whose file
\* is no longer among `files`, and the others carry the commit newHead
LostOnlyDeleted(key, files, before, after, newHead) ==
    LET deleted == (DOMAIN before) \ FileAliases(key, files)
    IN /\ (DOMAIN before) \ (DOMAIN after) = deleted
       /\ \A k \in (DOMAIN before) \ deleted : after[k].Commit = newHead

\* C11: a pass of an already synced repository that returns nil removes from
\* the VM store and from the subnet store of the repository exactly the
\* definitions whose file is gone from the working tree; every other
\* definition stored before is still stored and carries the new head.
C11_PurgesExactlyDeleted ==
    [][(/\ UpdatePass(NoHalt)
        /\ last'.err = "nil"
        /\ sourcesList[Head(queue)].Commit # ZeroHash)
       => LET r == Head(queue)
          IN /\ LostOnlyDeleted(vmKey, tree[r].vms, vms[r], vms'[r], head[r])
             /\ LostOnlyDeleted(subnetKey, tree[r].subnets, subnets[r],
                                subnets'[r], head[r])]_vars

\* the second pass of the core repository has returned nil: bar, whose file
\* was deleted upstream, is gone from its VM store and foo is kept
C11_Witness ==
    /\ last = Fetched("Pass", CoreAlias, "nil", <<"refs/heads/", "main">>)
    /\ head[CoreAlias] = NextCommit(FirstCommit(CoreAlias))
    /\ DOMAIN vms[CoreAlias] = {"foo"}
    /\ Has(registry, "bar")
    /\ FileAliases(vmKey, tree[CoreAlias].vms) = {"foo"}

\* C12: when the fetch or any step of a pass before the checkpoint fails,
\* Update returns the error and the Source-List is left as it was, the
\* commit of the repository included; this holds wherever the pass stops.
C12_FailedPassKeepsSourceInfo ==
    [][/\ ((UpdateFetchFails \/ \E halt \in Interruptions : UpdatePass(halt))
            /\ last'.err # "nil")
           => /\ sourcesList' = sourcesList
              /\ pc' = "idle" /\ queue' = << >>
       /\ (pc = "update" /\ queue # << >> /\ ~AtHead)
           => \A halt \in Halts(tree[Head(queue)]) \ {NoHalt} :
                LET out == Execute(Stores, tree[Head(queue)], Head(queue),
                                   sourcesList[Head(queue)],
                                   head[Head(queue)], halt)
                IN out.err # "nil" /\ out.sourcesList = sourcesList
      ]_vars

\* a later pass of the core repository has failed in updateVMs and its
\* Source-List commit is still the one of its first pass
C12_Witness ==
    /\ pc = "idle"
    /\ last = Fetched("Pass", CoreAlias, "ErrNotFound", <<"refs/heads/", "main">>)
    /\ sourcesList[CoreAlias].Commit = FirstCommit(CoreAlias)
    /\ head[CoreAlias] # FirstCommit(CoreAlias)

(***************************************************************************)
(* Properties of the loop of Update.                                       *)
(***************************************************************************)
\* Update starts with every tracked repository, once, in iteration order
StartsInOrder ==
    (pc = "idle" /\ pc' = "update")
        => queue' = Ordered(RepoOrder, DOMAIN sourcesList')

\* a step of the loop invokes the Git Mirror for the first repository left,
\* and a pass that returns nil has written its checkpoint within the step
HandlesNext ==
    pc = "update"
        => /\ last'.op \in {"Fetch", "Skip", "Pass"}
           /\ last'.arg = Head(queue)
           /\ (last'.op = "Pass" /\ last'.err = "nil")
                => sourcesList'[Head(queue)].Commit = head[Head(queue)]

\* C13 as stated: Update starts with every tracked repository in iteration
\* order, each step handles the first repository left to its end, and the
\* loop goes on to the repositories that follow, so that the Git Mirror is
\* invoked exactly once for every tracked repository in every invocation.
C13_ExactlyOncePerRepository ==
    [][/\ StartsInOrder
       /\ HandlesNext
       /\ pc = "update" => queue' = Tail(queue)]_vars

\* C13 amended: as above, but the loop goes on to the repositories that
\* follow only while no fetch and no pass fails; when one fails Update
\* returns and the repositories that follow are not fetched.
C13_AtMostOncePerRepository ==
    [][/\ StartsInOrder
       /\ HandlesNext
       /\ pc = "update"
            => \/ last'.err = "nil" /\ queue' = Tail(queue)
               \/ last'.err # "nil" /\ queue' = << >> /\ pc' = "idle"
       /\ (pc = "update" /\ pc' = "idle" /\ last'.err = "nil")
            => Tail(queue) = << >>]_vars

\* Update has returned nil after the first pass of RepoA, the last in
\* iteration order, the core repository before it being at its head
C13_Witness ==
    /\ pc = "idle"
    /\ last = Fetched("Pass", RepoA, "nil", <<"refs/heads/", "main">>)
    /\ RepoOrder[Len(RepoOrder)] = RepoA
    /\ sourcesList[CoreAlias].Commit = head[CoreAlias]
    /\ sourcesList[RepoA].Commit = FirstCommit(RepoA)
    /\ vms[CoreAlias] # EmptyDB /\ vms[RepoA] # EmptyDB

\* C14: when the fetch or the pass of a repository fails, Update returns at
\* once: the stores, the Source-List entry and the local mirror of every
\* other repository, before or after it in iteration order, are left as
\* they are.
C14_AbortsOnFirstError ==
    [][(pc = "update" /\ last'.err # "nil")
        => /\ pc' = "idle" /\ queue' = << >>
           /\ \A B \in Repos \ {Head(queue)} :
                 SameRepository(B) /\ mirror'[B] = mirror[B]]_vars

\* the pass of the core repository has failed and Update has returned while
\* RepoA, tracked and next in iteration order, has never been fetched
C14_Witness ==
    /\ pc = "idle"
    /\ last.op = "Pass" /\ last.arg = CoreAlias /\ last.err # "nil"
    /\ Has(sourcesList, RepoA)
    /\ sourcesList[RepoA].Commit = ZeroHash
    /\ mirror[RepoA] = ZeroHash

(***************************************************************************)
(* Properties of the Source-List entries.                                  *)
(***************************************************************************)
\* C15: every step of the loop of Update invokes the Git Mirror with the
\* branch reference recorded in the SourceInfo of the repository.
C15_FetchesTrackedBranch ==
    [][pc = "update"
        => last'.reference = sourcesList[Head(queue)].Branch]_vars

\* C16: a pass that returns nil leaves the alias, the url and the branch of
\* the SourceInfo of its repository as they were.
C16_CheckpointKeepsOtherFields ==
    [][((\E halt \in Interruptions : UpdatePass(halt)) /\ last'.err = "nil")
        => LET before == sourcesList[Head(queue)]
               after == sourcesList'[Head(queue)]
           IN /\ after.Alias = before.Alias
              /\ after.URL = before.URL
              /\ after.Branch = before.Branch]_vars

(***************************************************************************)
(* Properties of JoinSubnet.                                               *)
(***************************************************************************)
\* what JoinSubnet returns, and the admin API calls it makes, once the VMs
\* are installed: connection refused counts as success
NodeOffline(loadVMs, whitelist) ==
    IF loadVMs \notin {"nil", "ECONNREFUSED"}
    THEN [err |-> loadVMs, admin |-> <<"LoadVMs">>]
    ELSE IF whitelist \notin {"nil", "ECONNREFUSED"}
    THEN [err |-> whitelist, admin |-> <<"LoadVMs", "WhitelistSubnet">>]
    ELSE [err |-> "nil", admin |-> <<"LoadVMs", "WhitelistSubnet">>]

\* C17: a JoinSubnet that reaches the admin API goes on and returns nil
\* when LoadVMs or WhitelistSubnet is refused the connection, and returns
\* any other error of the two calls at once.
C17_ConnectionRefusedIsNodeOffline ==
    [][last'.op \in JoinOps =>
        \A alias \in Aliases, answers \in AdminAnswers :
            (/\ \/ JoinSubnet(alias, answers[1], answers[2])
                \/ APMJoinSubnet(alias, answers[1], answers[2])
             /\ last'.admin # << >>)
                => /\ last'.err = NodeOffline(answers[1], answers[2]).err
                   /\ last'.admin = NodeOffline(answers[1], answers[2]).admin
      ]_vars

\* C18: a JoinSubnet that has found the subnet in repository R calls
\* Install with R:vm for the VMs the definition requires, in order; it
\* calls the admin API, LoadVMs then WhitelistSubnet, only when every one
\* of them is installed, and otherwise returns the error with no admin
\* API call.
C18_InstallsRequiredBeforeAdmin ==
    [][(/\ last'.op \in JoinOps
        /\ last'.arg # NoName
        /\ Has(subnets[last'.arg[1]], last'.arg[3]))
       => LET R == last'.arg[1]
              required == subnets[R][last'.arg[3]].Definition.VMs
              names == [i \in DOMAIN required |->
                            FullName(R, <<required[i]>>)]
              installed ==
                  /\ last'.installs = names
                  /\ \A i \in DOMAIN names : Has(installedVMs', names[i])
          IN /\ Len(last'.installs) <= Len(names)
             /\ \A i \in DOMAIN last'.installs : last'.installs[i] = names[i]
             /\ last'.admin \in {<< >>, <<"LoadVMs">>,
                                  <<"LoadVMs", "WhitelistSubnet">>}
             /\ last'.admin # << >> => installed
             /\ ~installed => last'.err # "nil" /\ last'.admin = << >>
      ]_vars
(***************************************************************************)
(* AddRepository and the form of the alias.                                *)
(***************************************************************************)
\* the alias has the two parts organization and repository
WellFormed(alias) ==
    alias \in {CoreAlias, RepoA}

\* C19: AddRepository with an alias that is not of the form
\* organization/repository returns an error and leaves the Source-List Store
\* unchanged
C19_InvalidAliasRejected ==
    [][\A alias \in AddAliases :
          (~WellFormed(alias) /\ AddRepository(alias, URLOf(alias), CoreBranch))
              => /\ last'.err # "nil"
                 /\ sourcesList' = sourcesList
      ]_vars
\* an alias of three parts has been refused while a repository is tracked
C19_Witness ==
    /\ last = Called("AddRepository", "orgA/repoA/extra", "invalid alias")
    /\ Has(sourcesList, CoreAlias)
    /\ ~Has(sourcesList, "orgA/repoA/extra")
C21_UninstallRemovesRecord ==
    [][\A alias \in Aliases :
          (/\ Uninstall(alias) \/ APMUninstall(alias)
           /\ last'.err = "nil"
           /\ last'.arg # NoName
           /\ Has(installedVMs, last'.arg))
              => ~Has(installedVMs', last'.arg)
      ]_vars
(***************************************************************************)
(* The installed VMs during a pass.                                        *)
(***************************************************************************)
\* the VMs the install workflow was executed for
Reinstalled(out) == {out.reinstalled[i] : i \in DOMAIN out.reinstalled}

\* C22: during a pass of a repository the reinstall is executed for an
\* installed VM if and only if the version installed is strictly older
\* than the version of its definition just loaded
C22_ReinstallIffOlder ==
    [][UpdatePass(NoHalt)
       => LET R == Head(queue)
              out == Execute(Stores, tree[R], R, sourcesList[R], head[R],
                             NoHalt)
              loaded == out.vms[R]
          IN \A k \in DOMAIN installedVMs :
                k \in Reinstalled(out)
                    <=> /\ ParseQualifiedName(k).alias = R
                        /\ Has(loaded, ParseQualifiedName(k).plugin)
                        /\ Compare(installedVMs[k],
                                   loaded[ParseQualifiedName(k).plugin]
                                       .Definition.Version) < 0
      ]_vars

\* C23: a pass of a repository whose head differs from its checkpoint, in
\* which the mirror, the files, the stores and the reinstalls all succeed,
\* ends with the checkpoint written, whatever the installed-VM store holds
C23_PassWritesCheckpoint ==
    [][UpdatePass(NoHalt)
       => /\ last'.err = "nil"
          /\ sourcesList'[Head(queue)].Commit = head[Head(queue)]
      ]_vars
(***************************************************************************)
(* A pass that fails part-way.                                             *)
(***************************************************************************)
\* the aliases of the definitions loadFromYAML wrote from the first n
\* entries of a directory
Written(key, files, n) ==
    {files[i].data[key].Alias : i \in {j \in LoadedFiles(files) : j <= n}}
\* the definitions under `aliases` are stored for repository R with `commit`
\* and the Alias Registry lists R for each of them
Kept(store, reg, R, aliases, commit) ==
    \A a \in aliases :
        /\ Has(store[R], a)
        /\ store[R][a].Commit = commit
        /\ Has(reg, a)
        /\ \E i \in DOMAIN reg[a].Repositories : reg[a].Repositories[i] = R

\* C24: a pass that fails part-way rolls nothing back: every definition and
\* Alias Registry entry written before the failure stays, tagged with the
\* latest commit, and the checkpoint of the repository stays at the
\* previous commit
C24_NoRollback ==
    [][\A halt \in Interruptions :
          (UpdatePass(halt) /\ last'.err # "nil")
              => LET R == Head(queue)
                     files == tree[R]
                 IN /\ sourcesList' = sourcesList
                    /\ Kept(vms', registry', R,
                            Written(vmKey, files.vms,
                                    Steps(halt, "loadVMs", Len(files.vms))),
                            head[R])
                    /\ Kept(subnets', registry', R,
                            Written(subnetKey, files.subnets,
                                    Steps(halt, "loadSubnets",
                                          Len(files.subnets))),
                            head[R])
      ]_vars
\* a pass has failed after it wrote definitions: the repository store holds
\* a definition whose commit is not the commit of the checkpoint
C24_Witness ==
    /\ last.op = "Pass"
    /\ last.err # "nil"
    /\ sourcesList[last.arg].Commit # ZeroHash
    /\ \E a \in DOMAIN vms[last.arg] :
          /\ vms[last.arg][a].Commit = head[last.arg]
          /\ vms[last.arg][a].Commit # sourcesList[last.arg].Commit
(***************************************************************************)
(* The keys of the Repository Stores and the Alias Registry.               *)
(***************************************************************************)
\* C25: every entry of the VM store and of the subnet store of a repository
\* is stored under the alias of its own payload
C25_KeyedByAlias ==
    \A r \in Repos :
        /\ \A k \in DOMAIN vms[r] : vms[r][k].Definition.Alias = k
        /\ \A k \in DOMAIN subnets[r] : subnets[r][k].Definition.Alias = k
\* a pass has loaded the files a, b of vms/ and n of subnets/, which define
\* foo, bar and net
C25_Witness ==
    /\ last.op = "Pass"
    /\ last.arg = CoreAlias
    /\ DOMAIN vms[CoreAlias] = {"foo", "bar"}
    /\ DOMAIN subnets[CoreAlias] = {"net"}
    /\ tree[CoreAlias] = TreeTwo
\* C26: the Alias Registry is consistent with the Repository Stores:
\* whenever the RepoList of a name n contains the repository alias r, r is
\* tracked and the namespace of r holds a VM or a subnet definition keyed n
C26_RegistryMatchesStores ==
    \A n \in DOMAIN registry :
        \A i \in DOMAIN registry[n].Repositories :
            LET r == registry[n].Repositories[i]
            IN /\ Has(sourcesList, r)
               /\ Has(vms[r], n) \/ Has(subnets[r], n)
\* C27: every RepoList stored in the Alias Registry is non-empty, and a
\* command called with a bare name that has no registry entry returns the
\* not-found error of the store and runs nothing
C27_RepoListsNonEmpty ==
    [][/\ \A n \in DOMAIN registry' : Len(registry'[n].Repositories) >= 1
       /\ (/\ last'.op \in CommandOps
           /\ last'.consulted
           /\ ~Has(registry, last'.alias[1]))
              => /\ last'.err = "ErrNotFound"
                 /\ last'.arg = NoName
                 /\ installedVMs' = installedVMs
      ]_vars
\* names are registered, and a command called with a bare name that is not
\* has returned not-found
C27_Witness ==
    /\ last.op \in CommandOps
    /\ last.consulted
    /\ last.err = "ErrNotFound"
    /\ registry # EmptyDB
    /\ ~Has(registry, last.alias[1])
    /\ Has(registry, "foo")
(***************************************************************************)
(* Store iterators.                                                        *)
(***************************************************************************)
\* C28: every store iterator opened by the sync loop, the stale purge,
\* RemoveRepository, ListRepositories and the installed-VM update has been
\* released when the operation that opened it returns, normally or with an
\* error
C28_IteratorsReleased == unreleased = << >>
C30_CoreStaysTracked ==
    [][/\ Has(sourcesList, CoreAlias) => Has(sourcesList', CoreAlias)
       /\ (RemoveRepository(CoreAlias) \/ removeRepository(CoreAlias))
             => /\ last'.err = "nil"
                /\ UNCHANGED <<sourcesList, registry, vms, subnets,
                               installedVMs>>
      ]_vars
\* RemoveRepository has been called for the core repository while it and
\* another repository were tracked and synchronised
C30_Witness ==
    /\ last = Called("RemoveRepository", CoreAlias, "nil")
    /\ Has(sourcesList, CoreAlias)
    /\ Has(sourcesList, RepoA)
    /\ vms[CoreAlias] # EmptyDB
    /\ subnets[CoreAlias] # EmptyDB
(***************************************************************************)
(* C31: start-up.                                                          *)
(***************************************************************************)
\* the Update in progress is the bootstrap of New: Update itself needs a
\* manager, which New returns only for a core repository that has a commit
Bootstrapping ==
    /\ pc = "update"
    /\ sourcesList[CoreAlias].Commit = ZeroHash

C32_InstalledIsSkipped ==
    [][\A alias \in Aliases :
          (/\ Install(alias)
           /\ qualifiedName(alias)
           /\ Has(installedVMs, alias))
              => /\ last'.err = "nil"
                 /\ last'.arg = alias
                 /\ ~install(installedVMs, vms, alias).executed
                 /\ UNCHANGED installedVMs
      ]_vars

\* Install has run with the fully-qualified name of a VM that is installed
\* with another version than the one its repository defines: the install
\* workflow would have written that version
C32_Witness ==
    /\ last.op = "Install"
    /\ last.err = "nil"
    /\ qualifiedName(last.alias)
    /\ Has(installedVMs, last.alias)
    /\ LET parsed == ParseQualifiedName(last.alias)
       IN /\ Has(vms[parsed.alias], parsed.plugin)
          /\ vms[parsed.alias][parsed.plugin].Definition.Version
                # installedVMs[last.alias]
(***************************************************************************)
(* C33: Info.                                                              *)
(***************************************************************************)
\* C33: Info(alias) is read-only: for a bare and for a fully-qualified alias
\* alike it executes no install workflow and leaves the installed-VM store,
\* the Repository Store, the Alias Registry and the Source-List Store
\* unchanged
C33_InfoReadOnly ==
    [][\A alias \in Aliases :
          Info(alias)
              => /\ ~InfoRuns(alias).out.executed
                 /\ UNCHANGED <<installedVMs, vms, subnets, registry,
                                sourcesList>>
      ]_vars
====
